---------------------------- MODULE Spec2Model ----------------------------
(***************************************************************************)
(* Formulae binary configuration format: the Object tree, the encoder      *)
(* (Object::into_bytes) and the decoder (Object::parse_root,               *)
(* Object::parse) of src/src/lib.rs, over byte sequences.                  *)
(*                                                                         *)
(* Bytes are integers 0..255, a buffer or slice is a sequence of bytes, a  *)
(* Rust String is the sequence of its UTF-8 bytes.  An unsigned integer    *)
(* wider than 16 bits is kept as the tuple of its 16-bit limbs, least      *)
(* significant first, so that every u32 and u64 has a value in the model.  *)
(***************************************************************************)
EXTENDS Integers, Sequences, FiniteSets, TLC

VARIABLES root, bytes, origin, pc, input, data, result

vars == <<root, bytes, origin, pc, input, data, result>>

---------------------------------------------------------------------------
(* Bounds of the explored inputs *)

\* most entries of a Root or Dictionary under test
MaxEntries == 2
\* most elements of an Array under test
MaxItems == 2

---------------------------------------------------------------------------
(* obj_types *)

BOOL == 0
INT32 == 1
INT64 == 2
STR == 3
DICT == 4
ARRAY == 5
END == 255

\* "formulae"
FORMULAE_MAGIC == <<102, 111, 114, 109, 117, 108, 97, 101>>

---------------------------------------------------------------------------
(* Fixed-width integers *)

Limb == 65536

\* the u32 / u64 of a small natural number
U32(n) == <<n % Limb, n \div Limb>>
U64(n) == <<n % Limb, n \div Limb, 0, 0>>

\* `x as u16`
as_u16(n) == n % Limb

\* u16::to_le_bytes
u16_to_le_bytes(n) == <<n % 256, n \div 256>>

\* the two bytes of a u16 read most significant first
u16_from_be_bytes(b) == 256 * b[1] + b[2]

\* u16::from_le_bytes
u16_from_le_bytes(b) == b[1] + 256 * b[2]

\* u32::to_le_bytes, u64::to_le_bytes: the limbs, least significant first
RECURSIVE to_le_bytes(_)
to_le_bytes(limbs) ==
    IF limbs = <<>> THEN <<>>
    ELSE u16_to_le_bytes(Head(limbs)) \o to_le_bytes(Tail(limbs))

\* u32::from_le_bytes, u64::from_le_bytes
from_le_bytes(b) ==
    [i \in 1..(Len(b) \div 2) |-> u16_from_le_bytes(<<b[2 * i - 1], b[2 * i]>>)]

\* `input.len() < len` for a u64 len cast to usize; n is a length of the model
len_lt(n, limbs) ==
    \/ limbs[3] # 0
    \/ limbs[4] # 0
    \/ limbs[2] >= 16384
    \/ n < limbs[1] + Limb * limbs[2]

\* `len as usize`, for a len that some slice of the model is at least as long as
as_usize(limbs) == limbs[1] + Limb * limbs[2]

---------------------------------------------------------------------------
(* core::str::from_utf8 succeeds on these bytes *)

IsCont(b) == b >= 128 /\ b <= 191

RECURSIVE Utf8Valid(_)
Utf8Valid(s) ==
    IF s = <<>> THEN TRUE
    ELSE LET b == s[1]
             n == Len(s)
             rest(k) == SubSeq(s, k + 1, n)
         IN  IF b < 128 THEN Utf8Valid(rest(1))
             ELSE IF b >= 194 /\ b <= 223
                  THEN n >= 2 /\ IsCont(s[2]) /\ Utf8Valid(rest(2))
             ELSE IF b >= 224 /\ b <= 239
                  THEN /\ n >= 3
                       /\ IsCont(s[2])
                       /\ (b = 224 => s[2] >= 160)
                       /\ (b = 237 => s[2] <= 159)
                       /\ IsCont(s[3])
                       /\ Utf8Valid(rest(3))
             ELSE IF b >= 240 /\ b <= 244
                  THEN /\ n >= 4
                       /\ IsCont(s[2])
                       /\ (b = 240 => s[2] >= 144)
                       /\ (b = 244 => s[2] <= 143)
                       /\ IsCont(s[3])
                       /\ IsCont(s[4])
                       /\ Utf8Valid(rest(4))
             ELSE FALSE

---------------------------------------------------------------------------
(* enum Object *)

Root(m) == [t |-> "Root", m |-> m]
Bool(b) == [t |-> "Bool", b |-> b]
Int32(n) == [t |-> "Int32", n |-> n]
Int64(n) == [t |-> "Int64", n |-> n]
String(s) == [t |-> "String", s |-> s]
Dictionary(m) == [t |-> "Dictionary", m |-> m]
Array(items) == [t |-> "Array", items |-> items]

\* HashMap::new
EmptyMap == [k \in {} |-> 0]

\* HashMap::insert: the new value replaces an old one
insert(m, k, v) == [x \in (DOMAIN m) \cup {k} |-> IF x = k THEN v ELSE m[x]]

---------------------------------------------------------------------------
(* What a call gives back: a value, or a panic of the thread *)

Tag(n) == [panic |-> FALSE, tag |-> n]
TagPanic == [panic |-> TRUE, tag |-> 0]

Bytes(b) == [panic |-> FALSE, bytes |-> b]
BytesPanic == [panic |-> TRUE, bytes |-> <<>>]

\* to_obj_type without an arm for Array
to_obj_type_without_array(obj) ==
    CASE obj.t = "Bool" -> Tag(BOOL)
      [] obj.t = "Int32" -> Tag(INT32)
      [] obj.t = "Int64" -> Tag(INT64)
      [] obj.t = "String" -> Tag(STR)
      [] obj.t = "Dictionary" -> Tag(DICT)
      [] OTHER -> TagPanic

\* Object::to_obj_type
to_obj_type(obj) ==
    CASE obj.t = "Bool" -> Tag(BOOL)
      [] obj.t = "Int32" -> Tag(INT32)
      [] obj.t = "Int64" -> Tag(INT64)
      [] obj.t = "String" -> Tag(STR)
      [] obj.t = "Dictionary" -> Tag(DICT)
      [] obj.t = "Array" -> Tag(ARRAY)
      [] OTHER -> TagPanic

\* the end tag alone, with no key length after it
end_tag_only == <<END>>

\* bytes.push(END); bytes.extend_from_slice(&0u16.to_le_bytes())
end_bytes == <<END>> \o u16_to_le_bytes(0)

\* one iteration of `for (key, object) in data`, given the bytes of the
\* object and of the iterations after it
keyed_entry(key, object, body, rest) ==
    IF to_obj_type(object).panic \/ body.panic \/ rest.panic THEN BytesPanic
    ELSE Bytes(<<to_obj_type(object).tag>>
               \o u16_to_le_bytes(as_u16(Len(key)))
               \o key
               \o body.bytes
               \o rest.bytes)

\* one iteration of `for object in items`
array_entry(object, body, rest) ==
    IF to_obj_type(object).panic \/ body.panic \/ rest.panic THEN BytesPanic
    ELSE Bytes(<<to_obj_type(object).tag>> \o body.bytes \o rest.bytes)

\* the orders in which a HashMap may hand out its entries: the sequences
\* of (key, object) pairs that hold every entry once
Iterations(m) ==
    LET n == Cardinality(DOMAIN m)
        orders == {s \in [1..n -> DOMAIN m] :
                     \A i, j \in 1..n : s[i] = s[j] => i = j}
    IN  {[i \in 1..n |-> <<s[i], m[s[i]]>>] : s \in orders}

RECURSIVE into_bytes(_), keyed_loop(_), array_loop(_)

\* the loop `for (key, object) in data`, handed the entries in this order
keyed_loop(entries) ==
    IF entries = <<>> THEN {Bytes(<<>>)}
    ELSE {keyed_entry(Head(entries)[1], Head(entries)[2], body, rest) :
            body \in into_bytes(Head(entries)[2]),
            rest \in keyed_loop(Tail(entries))}

\* the loop over the items of an Array
array_loop(items) ==
    IF items = <<>> THEN {Bytes(<<>>)}
    ELSE {array_entry(Head(items), body, rest) :
            body \in into_bytes(Head(items)), rest \in array_loop(Tail(items))}

\* the bytes after the loop of a container
closed(prefix, r) ==
    IF r.panic THEN BytesPanic ELSE Bytes(prefix \o r.bytes \o end_bytes)

\* Object::into_bytes: every byte sequence the call may return, one for each
\* order in which the mappings of the tree are iterated
into_bytes(obj) ==
    CASE obj.t = "Root" ->
           {closed(FORMULAE_MAGIC, r) :
              r \in UNION {keyed_loop(es) : es \in Iterations(obj.m)}}
      [] obj.t = "Bool" -> {Bytes(<<IF obj.b THEN 1 ELSE 0>>)}
      [] obj.t = "Int32" -> {Bytes(to_le_bytes(obj.n))}
      [] obj.t = "Int64" -> {Bytes(to_le_bytes(obj.n))}
      [] obj.t = "String" ->
           {Bytes(to_le_bytes(U64(Len(obj.s))) \o obj.s)}
      [] obj.t = "Dictionary" ->
           {closed(<<>>, r) :
              r \in UNION {keyed_loop(es) : es \in Iterations(obj.m)}}
      [] obj.t = "Array" ->
           {closed(<<>>, r) : r \in array_loop(obj.items)}

---------------------------------------------------------------------------
(* Byte-cursor primitives: Option<(head, rest)> *)

None == [some |-> FALSE, head |-> <<>>, rest |-> <<>>]
Some(head, rest) == [some |-> TRUE, head |-> head, rest |-> rest]

\* slice.split_at(n)
split_at(buf, n) ==
    Some(SubSeq(buf, 1, n), SubSeq(buf, n + 1, Len(buf)))

\* read_bytes that hands back the whole slice as the rest
read_bytes_peeking(N, buf) ==
    IF Len(buf) < N THEN None ELSE Some(SubSeq(buf, 1, N), buf)

\* read_bytes::<N>
read_bytes(N, buf) ==
    IF Len(buf) < N THEN None ELSE split_at(buf, N)

\* read_key: a 2-byte length, then that many bytes of UTF-8
read_key(buf) ==
    LET r == read_bytes(2, buf)
    IN  IF ~r.some THEN None
        ELSE LET len == u16_from_le_bytes(r.head)
             IN  IF Len(r.rest) < len THEN None
                 ELSE LET s == split_at(r.rest, len)
                      IN  IF Utf8Valid(s.head) THEN s ELSE None

\* read_string: an 8-byte length, then that many bytes of UTF-8
read_string(buf) ==
    LET r == read_bytes(8, buf)
    IN  IF ~r.some THEN None
        ELSE LET len == from_le_bytes(r.head)
             IN  IF len_lt(Len(r.rest), len) THEN None
                 ELSE LET s == split_at(r.rest, as_usize(len))
                      IN  IF Utf8Valid(s.head) THEN s ELSE None

---------------------------------------------------------------------------
(* Object::parse: Result<Option<(Object, rest)>, String> *)

Err(msg, value) ==
    [ok |-> FALSE, some |-> FALSE, object |-> <<>>, rest |-> <<>>,
     msg |-> msg, value |-> value]
OkSome(object, rest) ==
    [ok |-> TRUE, some |-> TRUE, object |-> object, rest |-> rest,
     msg |-> "", value |-> 0]
OkNone ==
    [ok |-> TRUE, some |-> FALSE, object |-> <<>>, rest |-> <<>>,
     msg |-> "", value |-> 0]

RECURSIVE parse(_, _), parse_dict(_, _), parse_array(_, _)

\* the loop of the DICT branch, with the entries read so far
parse_dict(map, in) ==
    LET t == read_bytes(1, in)
    IN  IF ~t.some
        THEN Err("Data unexpectedly ended while parsing Dictionary object", 0)
        ELSE LET k == read_key(t.rest)
             IN  IF ~k.some
                 THEN Err("Data unexpectedly ended while parsing Dictionary object contents", 0)
                 ELSE LET p == parse(t.head[1], k.rest)
                      IN  IF ~p.ok THEN p
                          ELSE IF p.some
                               THEN parse_dict(insert(map, k.head, p.object), p.rest)
                               ELSE OkSome(Dictionary(map), k.rest)

\* the ARRAY loop putting each item before the items read so far
parse_array_prepending(items, in) ==
    LET t == read_bytes(1, in)
    IN  IF ~t.some
        THEN Err("Data unexpectedly ended while parsing Array object", 0)
        ELSE LET p == parse(t.head[1], t.rest)
             IN  IF ~p.ok THEN p
                 ELSE IF p.some
                      THEN parse_array(<<p.object>> \o items, p.rest)
                      ELSE OkSome(Array(items), t.rest)

\* the loop of the ARRAY branch, with the items read so far
parse_array(items, in) ==
    LET t == read_bytes(1, in)
    IN  IF ~t.some
        THEN Err("Data unexpectedly ended while parsing Array object", 0)
        ELSE LET p == parse(t.head[1], t.rest)
             IN  IF ~p.ok THEN p
                 ELSE IF p.some
                      THEN parse_array(Append(items, p.object), p.rest)
                      ELSE OkSome(Array(items), t.rest)

parse(obj_type, in) ==
    CASE obj_type = BOOL ->
           LET r == read_bytes(1, in)
           IN  IF r.some
               THEN IF r.head[1] > 1
                    THEN Err("Invalid value for Bool object", r.head[1])
                    ELSE OkSome(Bool(r.head[1] = 1), r.rest)
               ELSE Err("Data unexpectedly ended while parsing Bool object", 0)
      [] obj_type = INT32 ->
           LET r == read_bytes(4, in)
           IN  IF r.some
               THEN OkSome(Int32(from_le_bytes(r.head)), r.rest)
               ELSE Err("Data unexpectedly ended while parsing Int32 object", 0)
      [] obj_type = INT64 ->
           LET r == read_bytes(8, in)
           IN  IF r.some
               THEN OkSome(Int64(from_le_bytes(r.head)), r.rest)
               ELSE Err("Data unexpectedly ended while parsing Int64 object", 0)
      [] obj_type = STR ->
           LET r == read_string(in)
           IN  IF r.some
               THEN OkSome(String(r.head), r.rest)
               ELSE Err("Data unexpectedly ended while parsing String object", 0)
      [] obj_type = DICT -> parse_dict(EmptyMap, in)
      [] obj_type = ARRAY -> parse_array(<<>>, in)
      [] obj_type = END -> OkNone
      [] OTHER -> Err("Unknown Object type", obj_type)

---------------------------------------------------------------------------
(* Object::parse_root: Result<Object, String>, or a panic *)

NoResult == [kind |-> "none", object |-> <<>>, msg |-> "", value |-> 0]
RetOk(object) == [kind |-> "Ok", object |-> object, msg |-> "", value |-> 0]
RetErr(msg, value) ==
    [kind |-> "Err", object |-> <<>>, msg |-> msg, value |-> value]
Panicked == [kind |-> "Panic", object |-> <<>>, msg |-> "", value |-> 0]

\* HashMap::try_insert: refuses a key the map holds
try_insert(m, k, v) ==
    IF k \in DOMAIN m THEN [ok |-> FALSE, map |-> m]
    ELSE [ok |-> TRUE, map |-> insert(m, k, v)]

---------------------------------------------------------------------------
(* The inputs explored *)

Keys == {<<97>>, <<98>>, <<67, 111, 111, 108>>}
DictKeys == {<<97>>, <<98>>}

Scalars ==
    {Bool(TRUE), Bool(FALSE), Int32(U32(7)), Int64(U64(11259375)),
     String(<<104, 101, 108, 108, 111>>)}

ArrayElems == {String(<<97>>), Int64(U64(1))}

\* the mappings of at most MaxEntries keys of ks to values of vs
Maps(ks, vs) ==
    UNION {[S -> vs] : S \in {T \in SUBSET ks : Cardinality(T) <= MaxEntries}}

\* the sequences of at most MaxItems values of vs
Seqs(vs) == UNION {[1..n -> vs] : n \in 0..MaxItems}

ScalarRoots == {Root(m) : m \in Maps(Keys, Scalars)}

ScalarArrays == {Array(s) : s \in Seqs(ArrayElems)}

ArrayRoots == {Root([k \in {key} |-> a]) : key \in Keys, a \in ScalarArrays}

Dicts ==
    {Dictionary(m) :
       m \in Maps(DictKeys, {Bool(TRUE), Int64(U64(1)), Array(<<>>),
                             Dictionary(EmptyMap)})}

NestedArrays ==
    {Array(<<c>>) : c \in ScalarArrays \cup {Dictionary(EmptyMap)}}

Containers == ScalarArrays \cup NestedArrays \cup Dicts

ContainerRoots ==
    {Root([k \in {<<97>>} |-> c]) : c \in Containers}
    \cup {Root([k \in DictKeys |-> IF k = <<97>> THEN c ELSE s]) :
            c \in Containers, s \in {Bool(TRUE), String(<<104, 105>>)}}

\* trees that hold a Root below the top
NestedRoots ==
    {Root([k \in {<<97>>} |-> c]) :
       c \in {Root(EmptyMap),
              Array(<<Root(EmptyMap)>>),
              Dictionary([k \in {<<98>>} |-> Root(EmptyMap)])}}
    \cup {Root([k \in DictKeys |->
                  IF k = <<97>> THEN Root(EmptyMap) ELSE Bool(TRUE)])}

Roots == ScalarRoots \cup ArrayRoots \cup ContainerRoots \cup NestedRoots

\* a key of 2^16 bytes, one more than a u16 counts
LongKey == [i \in 1..Limb |-> 97]

LongKeyRoots == {Root([k \in {LongKey} |-> v]) : v \in {Bool(TRUE), Array(<<>>)}}

---------------------------------------------------------------------------
(* Encoding a tree, then decoding the bytes *)

\* a tree of rs is in memory, nothing is encoded yet
InitTree(rs) ==
    /\ root \in rs
    /\ bytes = <<>>
    /\ origin = "object"
    /\ pc = "encode"
    /\ input = <<>>
    /\ data = EmptyMap
    /\ result = NoResult

Init == InitTree(Roots \cup LongKeyRoots)

\* root.into_bytes(), with one of the iteration orders of its mappings
IntoBytes ==
    /\ pc = "encode"
    /\ \E r \in into_bytes(root) :
         IF r.panic
         THEN /\ pc' = "done"
              /\ result' = Panicked
              /\ UNCHANGED <<bytes, origin>>
         ELSE /\ pc' = "call"
              /\ bytes' = r.bytes
              /\ origin' = "encoded"
              /\ UNCHANGED result
    /\ UNCHANGED <<root, input, data>>

Return(r) ==
    /\ pc' = "done"
    /\ result' = r
    /\ UNCHANGED <<input, data>>

\* Object::parse_root(&bytes), up to the entry loop
ParseRootCall ==
    /\ pc = "call"
    /\ IF Len(bytes) < 2 THEN Return(RetErr("Data too small", 0))
       ELSE LET m == read_bytes(8, bytes)
            IN  IF ~m.some THEN Return(Panicked)
                ELSE IF ~Utf8Valid(m.head) THEN Return(RetErr("Utf8Error", 0))
                ELSE IF m.head = FORMULAE_MAGIC
                     THEN /\ pc' = "loop"
                          /\ input' = m.rest
                          /\ data' = EmptyMap
                          /\ UNCHANGED result
                     ELSE Return(RetErr("Invalid magic", 0))
    /\ UNCHANGED <<root, bytes, origin>>

\* how one test of `while !input.is_empty()` ends: parse_root returns r, or
\* the loop goes on with the input and the map it has then
Returns(r) == [ret |-> TRUE, result |-> r]
GoesOn(in, map) == [ret |-> FALSE, input |-> in, data |-> map]

\* one test of `while !input.is_empty()` on the input and the map so far: an
\* iteration of the entry loop, or the `Err("Missing End object")` after the
\* loop when the input is used up
root_entry(in, map) ==
    LET t == read_bytes(1, in)
        k == read_key(t.rest)
        p == parse(t.head[1], k.rest)
        ins == try_insert(map, k.head, p.object)
    IN  IF in = <<>> THEN Returns(RetErr("Missing End object", 0))
        ELSE IF ~t.some THEN Returns(RetErr("Data unexpectedly ended", 0))
        ELSE IF ~k.some THEN GoesOn(t.rest, map)
        ELSE IF ~p.ok THEN Returns(RetErr(p.msg, p.value))
        ELSE IF ~p.some THEN Returns(RetOk(Root(map)))
        ELSE IF ~ins.ok
             THEN Returns(RetErr("Tried to insert already existing value", 0))
        ELSE GoesOn(p.rest, ins.map)

\* the step of parse_root that runs one test of the entry loop
ParseRootEntry ==
    /\ pc = "loop"
    /\ LET e == root_entry(input, data)
       IN  IF e.ret THEN Return(e.result)
           ELSE /\ input' = e.input
                /\ data' = e.data
                /\ UNCHANGED <<pc, result>>
    /\ UNCHANGED <<root, bytes, origin>>

Next ==
    \/ IntoBytes
    \/ ParseRootCall
    \/ ParseRootEntry

Spec == Init /\ [][Next]_vars

---------------------------------------------------------------------------
(* Decoding buffers that are not the encoding of a tree *)

\* most bytes after the magic of a buffer written by hand
MaxRaw == 4

RawBytes == {0, 1, 4, 5, 7, 97, 255}

\* the magic, then any bytes of RawBytes
RawBuffers ==
    {FORMULAE_MAGIC \o s : s \in UNION {[1..n -> RawBytes] : n \in 0..MaxRaw}}

\* the values a byte of the magic is replaced by
ReplacementBytes == {0, 70, 128, 195, 255}

\* buffers in which two entries of one mapping have the same key: the Root's
\* entry loop run over two entries of key k, and the same inside a Dictionary
\* that is the one entry of the Root
DuplicateBuffers ==
    LET twice(k, v, w) == keyed_loop(<<<<k, v>>, <<k, w>>>>)
        nested(k, r) ==
            keyed_entry(k, Dictionary(EmptyMap), closed(<<>>, r), Bytes(<<>>))
    IN  UNION {{closed(FORMULAE_MAGIC, r).bytes : r \in twice(k, v, w)}
               \cup {closed(FORMULAE_MAGIC, nested(k, r)).bytes :
                       r \in twice(k, v, w)} :
               k \in DictKeys, v \in {Bool(FALSE)}, w \in Scalars}

InitBuffers ==
    /\ root = Root(EmptyMap)
    /\ \/ origin = "duplicate" /\ bytes \in DuplicateBuffers
       \/ origin = "raw" /\ bytes \in RawBuffers
    /\ pc = "call"
    /\ input = <<>>
    /\ data = EmptyMap
    /\ result = NoResult

\* the caller hands parse_root only the first k bytes of an encoding
Truncate ==
    /\ pc = "call"
    /\ origin = "encoded"
    /\ \E k \in 0..(Len(bytes) - 1) : bytes' = SubSeq(bytes, 1, k)
    /\ origin' = "truncated"
    /\ UNCHANGED <<root, pc, input, data, result>>

\* one byte of the magic of an encoding is replaced by another value
ReplaceMagicByte ==
    /\ pc = "call"
    /\ origin = "encoded"
    /\ \E i \in 1..Len(FORMULAE_MAGIC) :
         \E x \in ReplacementBytes \ {bytes[i]} :
            bytes' = [bytes EXCEPT ![i] = x]
    /\ origin' = "replaced"
    /\ UNCHANGED <<root, pc, input, data, result>>

NextBuffers ==
    \/ IntoBytes
    \/ Truncate
    \/ ReplaceMagicByte
    \/ ParseRootCall
    \/ ParseRootEntry

SpecBuffers == (InitTree(Roots) \/ InitBuffers) /\ [][NextBuffers]_vars

---------------------------------------------------------------------------
(* Shapes of trees *)

ScalarTypes == {"Bool", "Int32", "Int64", "String"}

IsScalar(obj) == obj.t \in ScalarTypes

\* a Root whose entries are all scalars
IsScalarRoot(obj) ==
    /\ obj.t = "Root"
    /\ \A k \in DOMAIN obj.m : IsScalar(obj.m[k])

\* a Root whose single entry is an Array of scalars
IsArrayRoot(obj) ==
    /\ obj.t = "Root"
    /\ Cardinality(DOMAIN obj.m) = 1
    /\ \A k \in DOMAIN obj.m :
         /\ obj.m[k].t = "Array"
         /\ \A i \in 1..Len(obj.m[k].items) : IsScalar(obj.m[k].items[i])

RECURSIVE HoldsRoot(_)
\* some value of the tree, the tree itself included, is a Root
HoldsRoot(obj) ==
    CASE obj.t = "Root" -> TRUE
      [] obj.t = "Dictionary" -> \E k \in DOMAIN obj.m : HoldsRoot(obj.m[k])
      [] obj.t = "Array" -> \E i \in 1..Len(obj.items) : HoldsRoot(obj.items[i])
      [] OTHER -> FALSE

RECURSIVE Values(_)
\* the values a tree holds below its top
Values(obj) ==
    CASE obj.t \in {"Root", "Dictionary"} ->
           UNION {{obj.m[k]} \cup Values(obj.m[k]) : k \in DOMAIN obj.m}
      [] obj.t = "Array" ->
           UNION {{obj.items[i]} \cup Values(obj.items[i]) :
                    i \in 1..Len(obj.items)}
      [] OTHER -> {}

\* a Value tree under a Root: no Root below the top
IsValueTree(obj) ==
    /\ obj.t = "Root"
    /\ \A k \in DOMAIN obj.m : ~HoldsRoot(obj.m[k])

\* every key of the tree has a length that a u16 holds
KeysFit(obj) ==
    \A v \in {obj} \cup Values(obj) :
       v.t \in {"Root", "Dictionary"} => \A k \in DOMAIN v.m : Len(k) < Limb

\* parse_root returned Ok with a Root equal to the tree that was encoded
RoundTrips == result.kind = "Ok" /\ result.object = root

Decoded == pc = "done" /\ origin = "encoded"

---------------------------------------------------------------------------
(* Claims *)

\* C1: every Value tree under a Root decodes, from each of its encodings,
\* to a Root equal to it (stated here for keys of less than 2^16 bytes).
C1_RoundTrip == (Decoded /\ IsValueTree(root) /\ KeysFit(root)) => RoundTrips

C5_EncoderTotal == pc # "encode" => origin # "object"

\* C5 amended: to_obj_type gives a tag to every value that is not a Root,
\* and into_bytes returns bytes for every tree with no Root below its top.
C5_EncoderTotalOnValueTrees ==
    /\ \A v \in Values(root) : v.t # "Root" => ~to_obj_type(v).panic
    /\ (pc # "encode" /\ IsValueTree(root))
          => (origin # "object" /\ result.kind # "Panic")

C5_Witness ==
    /\ origin = "encoded"
    /\ IsValueTree(root)
    /\ \E k \in DOMAIN root.m :
         /\ root.m[k].t = "Array"
         /\ Len(root.m[k].items) > 0
         /\ root.m[k].items[1].t = "Dictionary"

---------------------------------------------------------------------------
(* Claims about buffers that are not the encoding of a tree *)

RegisteredTags == {BOOL, INT32, INT64, STR, DICT, ARRAY, END}

\* the errors that say the data ended too early
EofMsgs ==
    {"Data too small",
     "Data unexpectedly ended",
     "Data unexpectedly ended while parsing Bool object",
     "Data unexpectedly ended while parsing Int32 object",
     "Data unexpectedly ended while parsing Int64 object",
     "Data unexpectedly ended while parsing String object",
     "Data unexpectedly ended while parsing Dictionary object",
     "Data unexpectedly ended while parsing Dictionary object contents",
     "Data unexpectedly ended while parsing Array object"}

\* the key field at the head of buf needs more bytes than buf holds
KeyNeedsMore(buf) ==
    \/ Len(buf) < 2
    \/ Len(buf) - 2 < u16_from_le_bytes(buf)

\* C3: a buffer with two entries of one key in the same mapping, Root or
\* nested Dictionary, is refused with the duplicate-key error.
C3_DuplicateKeyRejected ==
    (pc = "done" /\ origin = "duplicate")
        => (result.kind = "Err"
            /\ result.msg = "Tried to insert already existing value")

\* C4: every proper prefix of an encoding is refused with an end-of-data or
\* missing-end error; parse_root neither succeeds nor panics on it.
C4_TruncationRejected ==
    (pc = "done" /\ origin = "truncated")
        => (result.kind = "Err"
            /\ result.msg \in EofMsgs \cup {"Missing End object"})

\* C6: a buffer whose first Root entry has a tag byte outside the registered
\* tags does not decode to Ok (the claim's last clause; its first names the
\* unknown-tag error as the outcome).
C6_UnknownTagNeverOk ==
    (pc = "done" /\ origin = "raw" /\ Len(bytes) > 8
     /\ bytes[9] \notin RegisteredTags)
        => result.kind = "Err"

\* C7: an encoding with one byte of its magic replaced by another value is
\* refused with the invalid-magic error.
C7_MagicCheck ==
    (pc = "done" /\ origin = "replaced")
        => (result.kind = "Err" /\ result.msg = "Invalid magic")

\* C10: an iteration of the Root's entry loop whose key field needs more
\* bytes than remain ends parse_root with an end-of-data error.
C10_FailedReadAborts ==
    [][(pc = "loop" /\ input # <<>> /\ KeyNeedsMore(Tail(input)))
         => (pc' = "done" /\ result'.kind = "Err" /\ result'.msg \in EofMsgs)]_vars

---------------------------------------------------------------------------
(* Object::parse on the encoding of one value, with other bytes after it.  *)
(* Here root holds the value handed to into_bytes (not a Root), input the  *)
(* bytes that follow it in the buffer and, after the call, the slice that  *)
(* parse gave back.                                                        *)

\* most bytes that follow the encoding of the value
MaxSuffix == 2

SuffixBytes == {0, 7, 255}

Suffixes == UNION {[1..n -> SuffixBytes] : n \in 0..MaxSuffix}

\* Object::parse returned Ok(None)
RetNone == [kind |-> "OkNone", object |-> <<>>, msg |-> "", value |-> 0]

InitValue ==
    /\ root \in Scalars \cup Containers
    /\ input \in Suffixes
    /\ bytes = <<>>
    /\ origin = "value"
    /\ pc = "encode"
    /\ data = EmptyMap
    /\ result = NoResult

\* the buffer: root.into_bytes(), then the bytes that follow
IntoBytesValue ==
    /\ pc = "encode"
    /\ origin = "value"
    /\ \E r \in into_bytes(root) :
         IF r.panic
         THEN /\ pc' = "done"
              /\ result' = Panicked
              /\ UNCHANGED bytes
         ELSE /\ pc' = "call"
              /\ bytes' = r.bytes \o input
              /\ UNCHANGED result
    /\ UNCHANGED <<root, origin, input, data>>

\* Object::parse(root.to_obj_type(), &bytes)
ParseValue ==
    /\ pc = "call"
    /\ origin = "value"
    /\ LET p == parse(to_obj_type(root).tag, bytes)
       IN  /\ result' = IF ~p.ok THEN RetErr(p.msg, p.value)
                        ELSE IF p.some THEN RetOk(p.object)
                        ELSE RetNone
           /\ input' = p.rest
    /\ pc' = "done"
    /\ UNCHANGED <<root, bytes, origin, data>>

NextValue ==
    \/ IntoBytesValue
    \/ ParseValue

SpecValue == InitValue /\ [][NextValue]_vars

\* C11: parse, handed the tag of a value and its encoding followed by other
\* bytes, returns Ok with an equal value and exactly the bytes that followed.
C11_ParseConsumesEncoding ==
    (pc = "done" /\ origin = "value")
        => /\ result.kind = "Ok"
           /\ result.object = root
           /\ \E e \in into_bytes(root) : ~e.panic /\ bytes = e.bytes \o input

\* C12: in the first entry that into_bytes writes for a Root, the 2-byte
\* key length is the number of key bytes written right after it, whatever
\* the length of the key.
C12_KeyLengthIsKeyByteCount ==
    (origin = "encoded" /\ DOMAIN root.m # {})
        => \E k \in DOMAIN root.m :
              /\ u16_from_le_bytes(<<bytes[10], bytes[11]>>) = Len(k)
              /\ SubSeq(bytes, 12, 11 + Len(k)) = k

---------------------------------------------------------------------------
(* Bounds and termination of decoding.  The length of the remaining input  *)
(* is the measure: an iteration of the entry loop either returns or leaves *)
(* a strictly shorter input, and it can always do one of the two.          *)

\* a is the last Len(a) elements of b
IsSuffix(a, b) ==
    /\ Len(a) <= Len(b)
    /\ a = SubSeq(b, Len(b) - Len(a) + 1, Len(b))

\* parse of the type t on the slice x hands back, with the object it read, a
\* shorter suffix of x
ParseInBounds(t, x) ==
    LET p == parse(t, x)
    IN  (p.ok /\ p.some) => (IsSuffix(p.rest, x) /\ Len(p.rest) < Len(x))

\* in the entry loop the input is a suffix of the buffer that starts after
\* the magic, and so is what parse hands back, whatever the type and the
\* place in the input it is called at (a recursive call is made at such a
\* place)
InBounds ==
    pc = "loop"
        => /\ IsSuffix(input, bytes)
           /\ Len(input) <= Len(bytes) - Len(FORMULAE_MAGIC)
           /\ \A i \in 1..(Len(input) + 1) :
                  \A t \in {BOOL, INT32, INT64, STR, DICT, ARRAY} :
                      ParseInBounds(t, SubSeq(input, i, Len(input)))

\* an iteration that does not return leaves a shorter suffix of the input
Consumes ==
    (pc = "loop" /\ pc' = "loop")
        => (Len(input') < Len(input) /\ IsSuffix(input', input))

\* the entry loop is never stuck: its next test returns or uses up input
CanStep ==
    pc = "loop"
        => LET e == root_entry(input, data)
           IN  e.ret \/ (Len(e.input) < Len(input) /\ IsSuffix(e.input, input))

\* parse_root on a buffer of at least 8 bytes returns Ok or Err
Returned ==
    (pc = "done" /\ Len(bytes) >= Len(FORMULAE_MAGIC))
        => result.kind \in {"Ok", "Err"}

\* C13: on a buffer of at least 8 bytes the remaining input is always a
\* suffix of the buffer, every iteration of the entry loop consumes at least
\* one byte and either returns or goes on, and parse_root returns Ok or Err.
C13_DecodingTerminatesInBounds ==
    /\ []InBounds
    /\ []CanStep
    /\ []Returned
    /\ [][Consumes]_vars

C13_Witness ==
    /\ pc = "done"
    /\ origin = "raw"
    /\ Len(bytes) = Len(FORMULAE_MAGIC) + MaxRaw
    /\ bytes[Len(FORMULAE_MAGIC) + 1] \in {DICT, ARRAY}
    /\ result.kind = "Err"
    /\ result.msg = "Missing End object"

=============================================================================
